---- MODULE Spec2Model ----
(***************************************************************************)
(* A model of src/main.py (Pulse32): the sensor thread, the main loop, the *)
(* upload, the overflow file data.txt and its flush.                       *)
(*                                                                         *)
(* A reading is the record [tag, keys]: tag stands for the values the dict *)
(* holds (its timestamp and measurements) and keys is the set of the       *)
(* dict's keys.  A line of data.txt is [json, val]: json says whether      *)
(* ujson.loads accepts the line, val is the dict it yields.  The size of   *)
(* the file is counted in lines.  An HTTP exchange is the status code the  *)
(* server answers; 0 stands for a transport failure (urequests raises).    *)
(***************************************************************************)
EXTENDS Integers, Sequences, FiniteSets, TLC

VARIABLES
    sensor_data,        \* the shared list of readings (main.py:38)
    data_lock,          \* who holds data_lock: "free", "sensor" or "main"
    flushing_file_lock, \* TRUE while flushing_file_lock is held
    batch,              \* main()'s local batch (main.py:279)
    store,              \* data.txt: [exists, lines]
    spc,                \* position of sensor_thread
    mpc,                \* position of main's loop
    reading,            \* sensor_thread's local reading
    clock,              \* time.time() as a counter of sensor cycles
    uploads,            \* history: every request sent, [payload, status]
    discarded,          \* history: tags dropped at the full sensor_data
    evicted,            \* history: tags popped from the full batch
    accepted,           \* history: tags of the readings pushed or stored
    env_ok,             \* history: no collaborator has failed so far
    full_cycle,         \* history: the last cycle saw len(batch) >= BATCH_SIZE
    hpc,                \* position of a function-level run
    script,             \* function-level run: the server's coming answers
    hbatch,             \* function-level run: the batch handed to the call
    hresult,            \* function-level run: what the call returned
    hsent,              \* function-level run: the requests the call sent
    store0,             \* function-level run: data.txt before the call
    processed_lines,    \* function-level run: flush_file's processed_lines
    henv,               \* function-level run: [wifi, fault] met by the call
    fpc                 \* function-level run: position of each flush_file caller

vars == <<sensor_data, data_lock, flushing_file_lock, batch, store, spc, mpc,
          reading, clock, uploads, discarded, evicted, accepted, env_ok,
          full_cycle, hpc, script, hbatch, hresult, hsent, store0,
          processed_lines, henv, fpc>>

threadVars == <<sensor_data, data_lock, batch, spc, mpc, reading, clock,
                discarded, evicted, accepted, env_ok, full_cycle>>

harnessVars == <<hpc, script, hbatch, hresult, hsent, store0, processed_lines,
                 henv, fpc>>

----------------------------------------------------------------------------
(* The program's constants, scaled down so that every case is reached.     *)
BATCH_SIZE == 2
MEMORY_LIMIT == 3
MAX_FILE_SIZE == 3
PUSH_RETRIES == 3

(* Bounds of the model.                                                    *)
MaxReadings == 5
MaxStored == 2
MaxScript == 2

READING_KEYS == {"timestamp", "partitionKey", "sensorGroups"}
WIRE_KEYS == {"id", "partitionKey", "name"}

TRANSPORT_ERROR == 0
Statuses == {TRANSPORT_ERROR, 200, 201, 500}

NoReading == [tag |-> 0, keys |-> {}]
Absent == [exists |-> FALSE, lines |-> <<>>]

RECURSIVE SeqsUpTo(_, _)
SeqsUpTo(S, n) ==
    IF n = 0 THEN {<<>>}
    ELSE LET shorter == SeqsUpTo(S, n - 1)
         IN shorter \cup {Append(s, x) : s \in shorter, x \in S}

Scripts == SeqsUpTo(Statuses, MaxScript)

(* The answers to the n requests a call can make at most.                  *)
Answers(n) == [1..n -> Statuses]

----------------------------------------------------------------------------
(* transform_reading(company_name, timestamp, sensor_groups): args is the  *)
(* tuple of positional arguments of the call.  A call with another number  *)
(* of arguments raises TypeError (ok = FALSE).                             *)
transform_reading(args) ==
    IF Len(args) = 3
    THEN [ok |-> TRUE, val |-> [tag |-> args[2], keys |-> READING_KEYS]]
    ELSE [ok |-> FALSE, val |-> NoReading]

(* ujson.dumps(reading) + "\n" and ujson.loads(line.strip()).              *)
dumps(r) == [json |-> TRUE, val |-> r]
loads(line) == [ok |-> line.json, val |-> line.val]

(* os.stat(filename)[6] if filename in os.listdir() else 0                 *)
file_size(st) == IF st.exists THEN Len(st.lines) ELSE 0

----------------------------------------------------------------------------
(* sensor_thread, lines 159-165: the push under data_lock.                 *)
sample_push_off_by_one(q, r) ==
    IF Len(q) <= MEMORY_LIMIT THEN Append(q, r) ELSE q

sample_push(q, r) ==
    IF Len(q) < MEMORY_LIMIT THEN Append(q, r) ELSE q

sample_discards(q) == ~(Len(q) < MEMORY_LIMIT)

(* main, lines 294-297: batch.extend(sensor_data); sensor_data.clear()     *)
drain_extend_prepend(b, q) == IF q # <<>> THEN q \o b ELSE b

drain_extend(b, q) == IF q # <<>> THEN b \o q ELSE b
drain_clear_kept(q) == q

drain_clear(q) == <<>>

----------------------------------------------------------------------------
(* push_to_server(batch), lines 183-205.  script holds the answers the     *)
(* server gives to the coming requests (none left: the transport fails).   *)
(* sent lists the requests made by the call, rest the answers left.        *)
wire_record(r) == [tag |-> r.tag, keys |-> WIRE_KEYS]

push_to_server_any_2xx(b, answers) ==
    IF \E i \in 1..Len(b) : ~(WIRE_KEYS \subseteq b[i].keys)
    THEN [result |-> FALSE, sent |-> <<>>, rest |-> answers]
    ELSE LET payload == [i \in 1..Len(b) |-> wire_record(b[i])]
             status == IF answers = <<>> THEN TRANSPORT_ERROR ELSE Head(answers)
             rest == IF answers = <<>> THEN <<>> ELSE Tail(answers)
         IN [result |-> (status >= 200 /\ status < 300),
             sent |-> <<[payload |-> payload, status |-> status]>>,
             rest |-> rest]

push_to_server(b, answers) ==
    IF \E i \in 1..Len(b) : ~(WIRE_KEYS \subseteq b[i].keys)
    THEN [result |-> FALSE, sent |-> <<>>, rest |-> answers]
    ELSE LET payload == [i \in 1..Len(b) |-> wire_record(b[i])]
             status == IF answers = <<>> THEN TRANSPORT_ERROR ELSE Head(answers)
             rest == IF answers = <<>> THEN <<>> ELSE Tail(answers)
         IN [result |-> (status = 200),
             sent |-> <<[payload |-> payload, status |-> status]>>,
             rest |-> rest]

(* save_to_file(batch), lines 209-224.  fault is the storage error of the  *)
(* call: none, open() raises, or f.write raises after `at` lines.          *)
NoFault == [kind |-> "none", at |-> 0]

Faults(b) ==
    {NoFault, [kind |-> "open", at |-> 0]}
        \cup {[kind |-> "write", at |-> k] : k \in 0..(Len(b) - 1)}

save_to_file(st, b, fault) ==
    IF file_size(st) >= MAX_FILE_SIZE
    THEN [result |-> FALSE, store |-> st]
    ELSE IF fault.kind = "open"
    THEN [result |-> FALSE, store |-> st]
    ELSE LET n == IF fault.kind = "write" THEN fault.at ELSE Len(b)
             written == [i \in 1..n |-> dumps(b[i])]
         IN [result |-> (fault.kind = "none"),
             store |-> [exists |-> TRUE, lines |-> st.lines \o written]]

(* A call that met Wi-Fi and no storage fault; no flush_file caller.       *)
NoEnv == [wifi |-> TRUE, fault |-> NoFault]
Callers == {1, 2}
NoCallers == [c \in Callers |-> "idle"]

(* flush_file, lines 238-259: the loop over the lines read from the file.  *)
(* n is line_number, b the batch under construction, processed is          *)
(* processed_lines.                                                        *)
RECURSIVE flush_loop(_, _, _, _, _, _)
flush_loop(lines, n, b, processed, answers, sent) ==
    IF n > Len(lines)
    THEN [processed |-> processed, sent |-> sent, rest |-> answers]
    ELSE LET parsed == loads(lines[n])
         IN IF ~parsed.ok
            THEN flush_loop(lines, n + 1, b, processed, answers, sent)
            ELSE IF ~(READING_KEYS \subseteq parsed.val.keys)
            THEN flush_loop(lines, n + 1, b, processed, answers, sent)
            ELSE LET t == transform_reading(<<parsed.val>>)
                 IN IF ~t.ok
                    THEN flush_loop(lines, n + 1, b, processed, answers, sent)
                    ELSE LET b2 == Append(b, t.val)
                         IN IF Len(b2) >= BATCH_SIZE
                            THEN LET p == push_to_server(b2, answers)
                                 IN IF p.result
                                    THEN flush_loop(lines, n + 1, <<>>, n,
                                                    p.rest, sent \o p.sent)
                                    ELSE [processed |-> processed,
                                          sent |-> sent \o p.sent,
                                          rest |-> p.rest]
                            ELSE flush_loop(lines, n + 1, b2, processed,
                                            answers, sent)

(* flush_file, lines 260-267: what the file holds after the flush.         *)
flush_rewrite(st, processed) ==
    IF processed < Len(st.lines)
    THEN [exists |-> TRUE,
          lines |-> SubSeq(st.lines, processed + 1, Len(st.lines))]
    ELSE Absent

(* flush_file(), lines 227-273.  lock is flushing_file_lock on entry.      *)
flush_file(lock, st, answers) ==
    IF lock
    THEN [result |-> FALSE, lock |-> lock, store |-> st, sent |-> <<>>,
          rest |-> answers]
    ELSE IF ~st.exists
    THEN [result |-> TRUE, lock |-> FALSE, store |-> st, sent |-> <<>>,
          rest |-> answers]
    ELSE LET r == flush_loop(st.lines, 1, <<>>, 0, answers, <<>>)
         IN [result |-> TRUE, lock |-> FALSE,
             store |-> flush_rewrite(st, r.processed),
             sent |-> r.sent, rest |-> r.rest]

(* main, line 303: [transform_reading(reading) for reading in batch]       *)
transform_batch(b) ==
    LET ts == [i \in 1..Len(b) |-> transform_reading(<<b[i]>>)]
    IN [ok |-> \A i \in 1..Len(b) : ts[i].ok,
        val |-> [i \in 1..Len(b) |-> ts[i].val]]

(* main, lines 300-311: the handling of the batch in one cycle.  wifi is   *)
(* what connect_wifi() returns.  raised: the cycle ends in the handler of  *)
(* lines 315-318.                                                          *)
handle_batch(b, st, wifi, answers, fault) ==
    IF ~(Len(b) >= BATCH_SIZE)
    THEN [raised |-> FALSE, batch |-> b, store |-> st, sent |-> <<>>,
          popped |-> {}]
    ELSE LET tb == transform_batch(b)
         IN IF ~tb.ok
            THEN [raised |-> TRUE, batch |-> b, store |-> st, sent |-> <<>>,
                  popped |-> {}]
            ELSE LET p == IF wifi THEN push_to_server(tb.val, answers)
                          ELSE [result |-> FALSE, sent |-> <<>>, rest |-> answers]
                 IN IF p.result
                    THEN [raised |-> FALSE, batch |-> <<>>, store |-> st,
                          sent |-> p.sent, popped |-> {}]
                    ELSE LET s == save_to_file(st, b, fault)
                         IN IF ~s.result
                            THEN IF Len(b) >= MEMORY_LIMIT
                                 THEN [raised |-> FALSE, batch |-> Tail(b),
                                       store |-> s.store, sent |-> p.sent,
                                       popped |-> {Head(b).tag}]
                                 ELSE [raised |-> FALSE, batch |-> b,
                                       store |-> s.store, sent |-> p.sent,
                                       popped |-> {}]
                            ELSE [raised |-> FALSE, batch |-> <<>>,
                                  store |-> s.store, sent |-> p.sent,
                                  popped |-> {}]

----------------------------------------------------------------------------
(* The states data.txt can be in when the program starts: absent, or up to *)
(* MaxStored lines left by earlier runs, each a stored reading, a JSON     *)
(* object without the reading's keys, or a line that does not parse.       *)
stored_line(i, shape) ==
    [json |-> (shape # "garbage"),
     val |-> [tag |-> 0 - i,
              keys |-> IF shape = "reading" THEN READING_KEYS ELSE {}]]

Shapes == {"reading", "nokeys", "garbage"}

StoreOf(shapes) ==
    [exists |-> TRUE,
     lines |-> [i \in 1..Len(shapes) |-> stored_line(i, shapes[i])]]

InitialStores == {Absent} \cup {StoreOf(sh) : sh \in SeqsUpTo(Shapes, MaxStored)}

(* The tags of the readings a file holds.                                  *)
stored_tags(st) ==
    {st.lines[i].val.tag : i \in {j \in 1..Len(st.lines) :
        st.lines[j].json /\ READING_KEYS \subseteq st.lines[j].val.keys}}

IdleHarness ==
    /\ hpc = "off"
    /\ script = <<>>
    /\ hbatch = <<>>
    /\ hresult = FALSE
    /\ hsent = <<>>
    /\ store0 = Absent
    /\ processed_lines = 0
    /\ henv = NoEnv
    /\ fpc = NoCallers

IdleThreads ==
    /\ sensor_data = <<>>
    /\ data_lock = "free"
    /\ batch = <<>>
    /\ spc = "off"
    /\ mpc = "off"
    /\ reading = NoReading
    /\ clock = 0
    /\ discarded = {}
    /\ evicted = {}
    /\ accepted = {}
    /\ env_ok = TRUE
    /\ full_cycle = FALSE

(* The state after main() has started the sensor thread (lines 38-40,      *)
(* 277-282).                                                               *)
Init ==
    /\ sensor_data = <<>>
    /\ data_lock = "free"
    /\ flushing_file_lock = FALSE
    /\ batch = <<>>
    /\ store \in InitialStores
    /\ spc = "read"
    /\ mpc = "flush"
    /\ reading = NoReading
    /\ clock = 0
    /\ uploads = <<>>
    /\ discarded = {}
    /\ evicted = {}
    /\ accepted = stored_tags(store)
    /\ env_ok = TRUE
    /\ full_cycle = FALSE
    /\ IdleHarness

(* sensor_thread, lines 149-157: read_sensors() and transform_reading.     *)
SensorRead ==
    /\ spc = "read"
    /\ clock < MaxReadings
    /\ clock' = clock + 1
    /\ \E ok \in BOOLEAN :
        /\ reading' = IF ok
                      THEN transform_reading(<<"company_ABC", clock + 1, "groups">>).val
                      ELSE NoReading
        /\ spc' = IF ok THEN "acquire" ELSE "sleep"
        /\ env_ok' = (env_ok /\ ok)
    /\ UNCHANGED <<sensor_data, data_lock, flushing_file_lock, batch, store,
                   mpc, uploads, discarded, evicted, full_cycle>>
    /\ UNCHANGED <<accepted, harnessVars>>

(* sensor_thread, line 160: with data_lock (entry).                        *)
SensorAcquire ==
    /\ spc = "acquire"
    /\ data_lock = "free"
    /\ data_lock' = "sensor"
    /\ spc' = "push"
    /\ UNCHANGED <<sensor_data, flushing_file_lock, batch, store, mpc, reading,
                   clock, uploads, discarded, evicted, env_ok, full_cycle>>
    /\ UNCHANGED <<accepted, harnessVars>>

(* sensor_thread, lines 161-165: append or discard, then leave the lock.   *)
SensorPush ==
    /\ spc = "push"
    /\ sensor_data' = sample_push(sensor_data, reading)
    /\ discarded' = IF sample_discards(sensor_data)
                    THEN discarded \cup {reading.tag}
                    ELSE discarded
    /\ accepted' = accepted \cup {reading.tag}
    /\ data_lock' = "free"
    /\ spc' = "sleep"
    /\ UNCHANGED <<flushing_file_lock, batch, store, mpc, reading, clock,
                   uploads, evicted, env_ok, full_cycle>>
    /\ UNCHANGED harnessVars

(* sensor_thread, line 170: time.sleep(READ_DELAY).                        *)
SensorSleep ==
    /\ spc = "sleep"
    /\ spc' = "read"
    /\ UNCHANGED <<sensor_data, data_lock, flushing_file_lock, batch, store,
                   mpc, reading, clock, uploads, discarded, evicted, env_ok,
                   full_cycle>>
    /\ UNCHANGED <<accepted, harnessVars>>

(* main, lines 288-291: flush the file if it exists and Wi-Fi connects.    *)
MainFlush ==
    /\ mpc = "flush"
    /\ \E wifi \in BOOLEAN, answers \in Answers(Len(store.lines) \div BATCH_SIZE) :
        LET f == IF store.exists /\ wifi
                 THEN flush_file(flushing_file_lock, store, answers)
                 ELSE [result |-> FALSE, lock |-> flushing_file_lock,
                       store |-> store, sent |-> <<>>, rest |-> answers]
        IN /\ store' = f.store
           /\ flushing_file_lock' = f.lock
           /\ uploads' = uploads \o f.sent
           /\ env_ok' = (env_ok /\ (store.exists => wifi)
                                /\ \A i \in 1..Len(f.sent) : f.sent[i].status = 200)
    /\ mpc' = "acquire"
    /\ UNCHANGED <<sensor_data, data_lock, batch, spc, reading, clock,
                   discarded, evicted, full_cycle>>
    /\ UNCHANGED <<accepted, harnessVars>>

(* main, line 294: with data_lock (entry).                                 *)
MainAcquire ==
    /\ mpc = "acquire"
    /\ data_lock = "free"
    /\ data_lock' = "main"
    /\ mpc' = "drain"
    /\ UNCHANGED <<sensor_data, flushing_file_lock, batch, store, spc, reading,
                   clock, uploads, discarded, evicted, env_ok, full_cycle>>
    /\ UNCHANGED <<accepted, harnessVars>>

MainDrain_keeps_lock ==
    /\ mpc = "drain"
    /\ batch' = drain_extend(batch, sensor_data)
    /\ sensor_data' = drain_clear(sensor_data)
    /\ mpc' = "handle"
    /\ UNCHANGED <<data_lock, flushing_file_lock, store, spc, reading, clock,
                   uploads, discarded, evicted, env_ok, full_cycle>>
    /\ UNCHANGED <<accepted, harnessVars>>

(* main, lines 295-298: move sensor_data into batch, then leave the lock.  *)
MainDrain ==
    /\ mpc = "drain"
    /\ batch' = drain_extend(batch, sensor_data)
    /\ sensor_data' = drain_clear(sensor_data)
    /\ data_lock' = "free"
    /\ mpc' = "handle"
    /\ UNCHANGED <<flushing_file_lock, store, spc, reading, clock, uploads,
                   discarded, evicted, env_ok, full_cycle>>
    /\ UNCHANGED <<accepted, harnessVars>>

(* main, lines 300-311 and the except of line 315.                         *)
MainHandle ==
    /\ mpc = "handle"
    /\ \E wifi \in BOOLEAN, answers \in Answers(1), fault \in Faults(batch) :
        LET h == handle_batch(batch, store, wifi, answers, fault)
        IN /\ batch' = h.batch
           /\ store' = h.store
           /\ uploads' = uploads \o h.sent
           /\ evicted' = evicted \cup h.popped
           /\ mpc' = IF h.raised THEN "cooldown" ELSE "sleep"
           /\ env_ok' = (env_ok /\ (Len(batch) >= BATCH_SIZE =>
                                      wifi /\ answers[1] = 200 /\ fault = NoFault))
    /\ full_cycle' = (Len(batch) >= BATCH_SIZE)
    /\ UNCHANGED <<sensor_data, data_lock, flushing_file_lock, spc, reading,
                   clock, discarded>>
    /\ UNCHANGED <<accepted, harnessVars>>

(* main, line 313: time.sleep(1).                                          *)
MainSleep ==
    /\ mpc = "sleep"
    /\ mpc' = "flush"
    /\ UNCHANGED <<sensor_data, data_lock, flushing_file_lock, batch, store,
                   spc, reading, clock, uploads, discarded, evicted, env_ok,
                   full_cycle>>
    /\ UNCHANGED <<accepted, harnessVars>>

MainCooldown_stops ==
    /\ mpc = "cooldown"
    /\ mpc' = "stopped"
    /\ UNCHANGED <<sensor_data, data_lock, flushing_file_lock, batch, store,
                   spc, reading, clock, uploads, discarded, evicted, env_ok,
                   full_cycle>>
    /\ UNCHANGED <<accepted, harnessVars>>

(* main, lines 315-318: log, blink, time.sleep(60), next iteration.        *)
MainCooldown ==
    /\ mpc = "cooldown"
    /\ mpc' = "flush"
    /\ UNCHANGED <<sensor_data, data_lock, flushing_file_lock, batch, store,
                   spc, reading, clock, uploads, discarded, evicted, env_ok,
                   full_cycle>>
    /\ UNCHANGED <<accepted, harnessVars>>

Next ==
    \/ SensorRead
    \/ SensorAcquire
    \/ SensorPush
    \/ SensorSleep
    \/ MainFlush
    \/ MainAcquire
    \/ MainDrain
    \/ MainHandle
    \/ MainSleep
    \/ MainCooldown

Spec == Init /\ [][Next]_vars

----------------------------------------------------------------------------
(* push_to_server called on its own: one call on a batch of up to          *)
(* BATCH_SIZE dicts, each with the wire keys, the reading keys or both,    *)
(* against a server whose coming answers are script.                       *)
KeySets == {WIRE_KEYS, READING_KEYS, WIRE_KEYS \cup READING_KEYS}

BatchOf(keysets) ==
    [i \in 1..Len(keysets) |-> [tag |-> i, keys |-> keysets[i]]]

UploadBatches == {BatchOf(ks) : ks \in SeqsUpTo(KeySets, BATCH_SIZE)}

InitUpload ==
    /\ IdleThreads
    /\ flushing_file_lock = FALSE
    /\ store = Absent
    /\ uploads = <<>>
    /\ hpc = "call"
    /\ script \in Scripts
    /\ hbatch \in UploadBatches
    /\ hresult = FALSE
    /\ hsent = <<>>
    /\ store0 = Absent
    /\ processed_lines = 0
    /\ henv = NoEnv
    /\ fpc = NoCallers

UploadCall ==
    /\ hpc = "call"
    /\ LET p == push_to_server(hbatch, script)
       IN /\ hresult' = p.result
          /\ hsent' = p.sent
          /\ script' = p.rest
          /\ uploads' = uploads \o p.sent
    /\ hpc' = "returned"
    /\ UNCHANGED <<threadVars, henv, fpc, flushing_file_lock, store, hbatch, store0,
                   processed_lines>>

NextUpload == UploadCall

SpecUpload == InitUpload /\ [][NextUpload]_vars

(* save_to_file called on its own, again and again, with batches of one to *)
(* BATCH_SIZE + 1 readings and every storage fault, starting from any file *)
(* an earlier run can have left.                                           *)
AppendBatches ==
    {BatchOf([i \in 1..n |-> READING_KEYS]) : n \in 1..(BATCH_SIZE + 1)}

InitAppend ==
    /\ IdleThreads
    /\ flushing_file_lock = FALSE
    /\ store \in InitialStores
    /\ uploads = <<>>
    /\ hpc = "call"
    /\ script = <<>>
    /\ hbatch = <<>>
    /\ hresult = FALSE
    /\ hsent = <<>>
    /\ store0 = Absent
    /\ processed_lines = 0
    /\ henv = NoEnv
    /\ fpc = NoCallers

AppendCall ==
    /\ hpc \in {"call", "returned"}
    /\ \E b \in AppendBatches :
        \E fault \in Faults(b) :
            LET s == save_to_file(store, b, fault)
            IN /\ store' = s.store
               /\ hresult' = s.result
               /\ hbatch' = b
    /\ store0' = store
    /\ hpc' = "returned"
    /\ UNCHANGED <<threadVars, henv, fpc, flushing_file_lock, uploads, script, hsent,
                   processed_lines>>

NextAppend == AppendCall

SpecAppend == InitAppend /\ [][NextAppend]_vars

(* flush_file called on its own, twice in a row, on a file of up to        *)
(* 2 * BATCH_SIZE + 1 lines against a server whose coming answers are      *)
(* script.                                                                 *)
FlushLines == 2 * BATCH_SIZE + 1

FlushStores == {StoreOf(sh) : sh \in SeqsUpTo(Shapes, FlushLines)}

InitFlush ==
    /\ IdleThreads
    /\ flushing_file_lock = FALSE
    /\ store \in FlushStores
    /\ uploads = <<>>
    /\ hpc = "call"
    /\ script \in Scripts
    /\ hbatch = <<>>
    /\ hresult = FALSE
    /\ hsent = <<>>
    /\ store0 = Absent
    /\ processed_lines = 0
    /\ henv = NoEnv
    /\ fpc = NoCallers

FlushCall ==
    /\ hpc \in {"call", "returned"}
    /\ LET f == flush_file(flushing_file_lock, store, script)
       IN /\ store' = f.store
          /\ flushing_file_lock' = f.lock
          /\ hresult' = f.result
          /\ hsent' = f.sent
          /\ script' = f.rest
          /\ uploads' = uploads \o f.sent
    /\ store0' = store
    /\ hpc' = IF hpc = "call" THEN "returned" ELSE "again"
    /\ UNCHANGED <<threadVars, henv, fpc, hbatch, processed_lines>>

NextFlush == FlushCall

SpecFlush == InitFlush /\ [][NextFlush]_vars

(* flush_file step by step, lines 260-267, with the process stopping at    *)
(* any point of the rewrite and starting again.  Every write reaches the   *)
(* file at once.                                                           *)
FlushOpen ==
    /\ hpc = "call"
    /\ ~flushing_file_lock
    /\ store.exists
    /\ LET r == flush_loop(store.lines, 1, <<>>, 0, script, <<>>)
       IN /\ processed_lines' = r.processed
          /\ hsent' = r.sent
          /\ script' = r.rest
          /\ uploads' = uploads \o r.sent
          /\ IF r.processed < Len(store.lines)
             THEN /\ store' = [exists |-> TRUE, lines |-> <<>>]
                  /\ hpc' = "rewrite"
                  /\ flushing_file_lock' = TRUE
             ELSE /\ store' = Absent
                  /\ hpc' = "returned"
                  /\ flushing_file_lock' = FALSE
    /\ store0' = store
    /\ UNCHANGED <<threadVars, henv, fpc, hbatch, hresult>>

FlushWrite ==
    /\ hpc = "rewrite"
    /\ Len(store.lines) < Len(store0.lines) - processed_lines
    /\ store' = [exists |-> TRUE,
                 lines |-> Append(store.lines,
                                  store0.lines[processed_lines + Len(store.lines) + 1])]
    /\ UNCHANGED <<threadVars, henv, fpc, flushing_file_lock, uploads, hpc, script,
                   hbatch, hresult, hsent, store0, processed_lines>>

FlushClose ==
    /\ hpc = "rewrite"
    /\ Len(store.lines) = Len(store0.lines) - processed_lines
    /\ flushing_file_lock' = FALSE
    /\ hresult' = TRUE
    /\ hpc' = "returned"
    /\ UNCHANGED <<threadVars, henv, fpc, store, uploads, script, hbatch, hsent, store0,
                   processed_lines>>

Restart ==
    /\ hpc = "rewrite"
    /\ hpc' = "restarted"
    /\ flushing_file_lock' = FALSE
    /\ UNCHANGED <<threadVars, henv, fpc, store, uploads, script, hbatch, hresult, hsent,
                   store0, processed_lines>>

FlushAfterRestart ==
    /\ hpc = "restarted"
    /\ LET f == flush_file(flushing_file_lock, store, script)
       IN /\ store' = f.store
          /\ flushing_file_lock' = f.lock
          /\ hresult' = f.result
          /\ script' = f.rest
          /\ uploads' = uploads \o f.sent
    /\ hpc' = "again"
    /\ UNCHANGED <<threadVars, henv, fpc, hbatch, hsent, store0, processed_lines>>

NextCrash ==
    \/ FlushOpen
    \/ FlushWrite
    \/ FlushClose
    \/ Restart
    \/ FlushAfterRestart

SpecCrash == InitFlush /\ [][NextCrash]_vars

----------------------------------------------------------------------------
(* One cycle's handling of the batch (main, lines 300-311) on its own:     *)
(* batch holds up to MEMORY_LIMIT + 2 readings of the sensor thread,       *)
(* data.txt is absent, partly filled or full, the server's answer is       *)
(* script, and connect_wifi() and the storage behave in every way.         *)
HandleBatches ==
    {BatchOf([i \in 1..n |-> READING_KEYS]) : n \in 0..(MEMORY_LIMIT + 2)}

HandleStores ==
    InitialStores \cup {StoreOf([i \in 1..MAX_FILE_SIZE |-> "reading"])}

InitHandle ==
    /\ sensor_data = <<>>
    /\ data_lock = "free"
    /\ flushing_file_lock = FALSE
    /\ batch \in HandleBatches
    /\ store \in HandleStores
    /\ spc = "off"
    /\ mpc = "off"
    /\ reading = NoReading
    /\ clock = 0
    /\ uploads = <<>>
    /\ discarded = {}
    /\ evicted = {}
    /\ accepted = {}
    /\ env_ok = TRUE
    /\ full_cycle = FALSE
    /\ hpc = "call"
    /\ script \in Answers(1)
    /\ hbatch = batch
    /\ hresult = FALSE
    /\ hsent = <<>>
    /\ store0 = store
    /\ processed_lines = 0
    /\ henv = NoEnv
    /\ fpc = NoCallers

HandleCall ==
    /\ hpc = "call"
    /\ \E wifi \in BOOLEAN, fault \in Faults(batch) :
        LET h == handle_batch(batch, store, wifi, script, fault)
        IN /\ batch' = h.batch
           /\ store' = h.store
           /\ uploads' = uploads \o h.sent
           /\ evicted' = evicted \cup h.popped
           /\ hsent' = h.sent
           /\ hresult' = h.raised
           /\ henv' = [wifi |-> wifi, fault |-> fault]
    /\ hpc' = "returned"
    /\ UNCHANGED <<sensor_data, data_lock, flushing_file_lock, spc, mpc,
                   reading, clock, discarded, accepted, env_ok, full_cycle,
                   script, hbatch, store0, processed_lines, fpc>>

NextHandle == HandleCall

SpecHandle == InitHandle /\ [][NextHandle]_vars

----------------------------------------------------------------------------
(* flush_file entered by two callers at once, step by step: the            *)
(* non-blocking acquire of line 229, the section of lines 233-268 with or  *)
(* without an exception, the finally of line 273.                          *)
flush_try_acquire_always(lock) == [acquired |-> TRUE, lock |-> TRUE]

(* flushing_file_lock.acquire(False), line 229.                            *)
flush_try_acquire(lock) == [acquired |-> ~lock, lock |-> TRUE]

(* What lines 233-268 leave in data.txt: exc is the exception raised, none *)
(* ("none"), by open/readlines ("read") or by the rewrite after its        *)
(* truncating open ("rewrite").                                            *)
flush_section(st, answers, exc) ==
    LET f == flush_file(FALSE, st, answers)
    IN IF ~st.exists \/ exc = "none"
       THEN [store |-> f.store, sent |-> f.sent]
       ELSE IF exc = "read" \/ ~f.store.exists
       THEN [store |-> st, sent |-> <<>>]
       ELSE [store |-> [exists |-> TRUE, lines |-> <<>>], sent |-> f.sent]

InitLock ==
    /\ IdleThreads
    /\ flushing_file_lock = FALSE
    /\ store \in InitialStores
    /\ uploads = <<>>
    /\ IdleHarness

LockEnter(c) ==
    /\ fpc[c] = "idle"
    /\ LET a == flush_try_acquire(flushing_file_lock)
       IN /\ flushing_file_lock' = IF a.acquired THEN a.lock
                                   ELSE flushing_file_lock
          /\ fpc' = [fpc EXCEPT ![c] = IF a.acquired THEN "section"
                                       ELSE "skipped"]
    /\ UNCHANGED <<threadVars, store, uploads, hpc, script, hbatch, hresult,
                   hsent, store0, processed_lines, henv>>

LockSection(c) ==
    /\ fpc[c] = "section"
    /\ \E exc \in {"none", "read", "rewrite"} :
        \E answers \in Answers(Len(store.lines) \div BATCH_SIZE) :
            LET r == flush_section(store, answers, exc)
            IN /\ store' = r.store
               /\ uploads' = uploads \o r.sent
    /\ fpc' = [fpc EXCEPT ![c] = "finally"]
    /\ UNCHANGED <<threadVars, flushing_file_lock, hpc, script, hbatch,
                   hresult, hsent, store0, processed_lines, henv>>

LockFinally(c) ==
    /\ fpc[c] = "finally"
    /\ flushing_file_lock' = FALSE
    /\ fpc' = [fpc EXCEPT ![c] = "returned"]
    /\ UNCHANGED <<threadVars, store, uploads, hpc, script, hbatch, hresult,
                   hsent, store0, processed_lines, henv>>

LockCallAgain(c) ==
    /\ fpc[c] \in {"returned", "skipped"}
    /\ fpc' = [fpc EXCEPT ![c] = "idle"]
    /\ UNCHANGED <<threadVars, flushing_file_lock, store, uploads, hpc, script,
                   hbatch, hresult, hsent, store0, processed_lines, henv>>

NextLock ==
    \E c \in Callers :
        \/ LockEnter(c)
        \/ LockSection(c)
        \/ LockFinally(c)
        \/ LockCallAgain(c)

SpecLock == InitLock /\ [][NextLock]_vars

----------------------------------------------------------------------------
(* The main loop with nothing to drain, Wi-Fi connected and a server that  *)
(* answers 200 to every request: each cycle flushes data.txt if it exists  *)
(* (lines 288-291), then sleeps (line 313).  The loop never stops.         *)
AllOk(n) == [i \in 1..n |-> 200]

InitDeliver ==
    /\ sensor_data = <<>>
    /\ data_lock = "free"
    /\ flushing_file_lock = FALSE
    /\ batch = <<>>
    /\ store \in FlushStores
    /\ spc = "off"
    /\ mpc = "flush"
    /\ reading = NoReading
    /\ clock = 0
    /\ uploads = <<>>
    /\ discarded = {}
    /\ evicted = {}
    /\ accepted = stored_tags(store)
    /\ env_ok = TRUE
    /\ full_cycle = FALSE
    /\ hpc = "off"
    /\ script = <<>>
    /\ hbatch = <<>>
    /\ hresult = FALSE
    /\ hsent = <<>>
    /\ store0 = store
    /\ processed_lines = 0
    /\ henv = NoEnv
    /\ fpc = NoCallers

DeliverFlush ==
    /\ mpc = "flush"
    /\ LET f == IF store.exists
                THEN flush_file(flushing_file_lock, store,
                                AllOk(Len(store.lines) \div BATCH_SIZE + 1))
                ELSE [result |-> FALSE, lock |-> flushing_file_lock,
                      store |-> store, sent |-> <<>>, rest |-> <<>>]
       IN /\ store' = f.store
          /\ flushing_file_lock' = f.lock
          /\ uploads' = uploads \o f.sent
    /\ mpc' = "sleep"
    /\ UNCHANGED <<sensor_data, data_lock, batch, spc, reading, clock,
                   discarded, evicted, accepted, env_ok, full_cycle,
                   harnessVars>>

DeliverSleep ==
    /\ mpc = "sleep"
    /\ mpc' = "flush"
    /\ UNCHANGED <<sensor_data, data_lock, flushing_file_lock, batch, store,
                   spc, reading, clock, uploads, discarded, evicted, accepted,
                   env_ok, full_cycle, harnessVars>>

NextDeliver ==
    \/ DeliverFlush
    \/ DeliverSleep

SpecDeliver == InitDeliver /\ [][NextDeliver]_vars /\ WF_vars(NextDeliver)

----------------------------------------------------------------------------
(* How often a value occurs in a sequence.                                 *)
Occurrences(sq, x) == Cardinality({i \in 1..Len(sq) : sq[i] = x})

TagsOf(sq) == [i \in 1..Len(sq) |-> sq[i].tag]

(* The places of the reading with tag t: the two memory buffers, the file, *)
(* the requests answered 200, the two evictions.                           *)
InMemory(t) == Occurrences(TagsOf(sensor_data \o batch), t)

InStore(t) ==
    Cardinality({i \in 1..Len(store.lines) :
                    store.lines[i].json /\ store.lines[i].val.tag = t})

Acknowledged(t) ==
    Cardinality({i \in 1..Len(uploads) :
                    /\ uploads[i].status = 200
                    /\ Occurrences(TagsOf(uploads[i].payload), t) > 0})

Evictions(t) == IF t \in discarded \cup evicted THEN 1 ELSE 0

Places(t) == InMemory(t) + InStore(t) + Acknowledged(t) + Evictions(t)

(* C1: every reading accepted by the pipeline is in exactly one place: in  *)
(* sensor_data or batch, in data.txt, acknowledged with 200, or evicted by *)
(* drop-newest or drop-oldest; never in two places, never uploaded twice,  *)
(* never lost.                                                             *)
C1_ExactlyOnePlace == \A t \in accepted : Places(t) = 1

C1_Witness ==
    /\ discarded # {}
    /\ Len(batch) >= BATCH_SIZE
    /\ mpc = "cooldown"
    /\ stored_tags(store) # {}

(* C2: sensor_data never holds more than MEMORY_LIMIT readings, and a push *)
(* at MEMORY_LIMIT readings leaves sensor_data unchanged and discards the  *)
(* incoming reading.                                                       *)
C2_QueueBoundedDropNewest ==
    /\ [](Len(sensor_data) <= MEMORY_LIMIT)
    /\ [][(spc = "push" /\ spc' # "push" /\ Len(sensor_data) = MEMORY_LIMIT)
            => (sensor_data' = sensor_data /\ reading.tag \in discarded'
                /\ InMemory(reading.tag)' = 0)]_vars

C2_Witness ==
    /\ Len(sensor_data) = MEMORY_LIMIT
    /\ discarded # {}

----------------------------------------------------------------------------
(* The answers of the server during a function-level run: those consumed   *)
(* by the requests of the last call, then those still to come.             *)
StatusesOf(sent) == [i \in 1..Len(sent) |-> sent[i].status]

Answered == StatusesOf(hsent) \o script

AllReadings(st) ==
    \A i \in 1..Len(st.lines) :
        st.lines[i].json /\ READING_KEYS \subseteq st.lines[i].val.keys

(* The J-th request is the first one not answered 200.                     *)
FailsAt(a, J) ==
    /\ Len(a) >= J
    /\ \A i \in 1..(J - 1) : a[i] = 200
    /\ a[J] # 200

(* C3: partial flush: for a file of K parseable records where the upload   *)
(* of the J-th batch fails (J * BATCH_SIZE <= K) and batches 1..J-1        *)
(* succeed, the file holds after flush_file() exactly the records from     *)
(* index (J-1) * BATCH_SIZE on, in order; a later flush uploads none of    *)
(* the acknowledged records again.                                         *)
C3_PartialFlushKeepsSuffix ==
    /\ (hpc = "returned" /\ store0.exists /\ AllReadings(store0))
        => \A J \in 1..MaxScript :
            (J * BATCH_SIZE <= Len(store0.lines) /\ FailsAt(Answered, J))
                => /\ store.exists
                   /\ store.lines = SubSeq(store0.lines, (J - 1) * BATCH_SIZE + 1,
                                           Len(store0.lines))
    /\ \A t \in stored_tags(store0) : Acknowledged(t) <= 1

(* C4: data.txt never holds more than MAX_FILE_SIZE: an append that would  *)
(* exceed it is rejected as a whole.                                       *)
C4_StoreWithinCap == file_size(store) <= MAX_FILE_SIZE

(* C5: when save_to_file returns False, data.txt is what it was before the *)
(* call.                                                                   *)
C5_FailedAppendWritesNothing ==
    (hpc = "returned" /\ ~hresult) => store.lines = store0.lines

(* C6: after a restart during the rewrite that ends a partial flush,       *)
(* data.txt holds its complete contents of before the rewrite or exactly   *)
(* the unconsumed suffix, and the next flush acknowledges no record twice. *)
C6_RewriteSurvivesRestart ==
    /\ (hpc = "restarted" /\ AllReadings(store0))
        => store \in {store0, flush_rewrite(store0, processed_lines)}
    /\ \A t \in stored_tags(store0) : Acknowledged(t) <= 1

(* C7: push_to_server retries after a non-200 answer or a transport        *)
(* failure, up to PUSH_RETRIES attempts, and returns success at the first  *)
(* attempt answered 200: answers 500 then 200 give success after exactly   *)
(* 2 attempts.                                                             *)
WireValid(b) == \A i \in 1..Len(b) : WIRE_KEYS \subseteq b[i].keys

C7_RetriesUntil200 ==
    (hpc = "returned" /\ hbatch # <<>> /\ WireValid(hbatch))
        => \A k \in 1..PUSH_RETRIES :
            (Len(Answered) >= k /\ Answered[k] = 200
                /\ \A i \in 1..(k - 1) : Answered[i] # 200)
                => (hresult /\ Len(hsent) = k)

(* C8: Scenario A: BATCH_SIZE sensor reads succeed, Wi-Fi connects and the *)
(* server answers 200 throughout: the main loop makes exactly one upload   *)
(* call, with the BATCH_SIZE readings in acquisition order, and batch is   *)
(* empty afterward, with nothing written to data.txt.                      *)
C8_ScenarioA ==
    (/\ env_ok
     /\ ~store.exists
     /\ accepted = 1..BATCH_SIZE
     /\ full_cycle
     /\ mpc \in {"sleep", "cooldown"})
        => /\ Len(uploads) = 1
           /\ TagsOf(uploads[1].payload) = [i \in 1..BATCH_SIZE |-> i]
           /\ batch = <<>>

(* C9: a flush in which every attempted upload succeeds (the server        *)
(* answers 200 to every request) leaves data.txt absent, with every stored *)
(* record uploaded, for every number K >= 1 of stored records.             *)
C9_FullFlushDeletesStore ==
    (/\ hpc = "returned"
     /\ hresult
     /\ store0.exists
     /\ Len(store0.lines) >= 1
     /\ AllReadings(store0)
     /\ Len(Answered) > Len(store0.lines) \div BATCH_SIZE
     /\ \A i \in 1..Len(Answered) : Answered[i] = 200)
        => (/\ ~store.exists
            /\ \A t \in stored_tags(store0) : Acknowledged(t) = 1)

(* C10: push_to_server returns True if and only if the response status is  *)
(* exactly 200, and the payload of every request holds one record per      *)
(* reading of the batch, all of them, in the batch's order.                *)
C10_SuccessIff200PayloadInOrder ==
    hpc = "returned"
        => /\ hresult <=> (Len(hsent) = 1 /\ hsent[1].status = 200)
           /\ \A i \in 1..Len(hsent) :
                /\ TagsOf(hsent[i].payload) = TagsOf(hbatch)
                /\ \A k \in 1..Len(hbatch) : hsent[i].payload[k].keys = WIRE_KEYS

C10_Witness ==
    /\ hpc = "returned"
    /\ hresult
    /\ Len(hbatch) = BATCH_SIZE
    /\ Len(hsent) = 1

----------------------------------------------------------------------------
(* The collaborators of one handling of the batch: the upload cannot       *)
(* succeed (no Wi-Fi, or an answer other than 200) and the append cannot   *)
(* succeed (data.txt at its cap, or a storage fault).                      *)
UploadCannotSucceed == ~henv.wifi \/ script[1] # 200

AppendCannotSucceed ==
    file_size(store0) >= MAX_FILE_SIZE \/ henv.fault # NoFault

IsSuffix(sq, whole) ==
    /\ Len(sq) <= Len(whole)
    /\ sq = SubSeq(whole, Len(whole) - Len(sq) + 1, Len(whole))

(* C11: at the end of a cycle in which batch reached BATCH_SIZE and both   *)
(* the upload and the append failed, batch holds fewer than MEMORY_LIMIT   *)
(* readings and the readings removed are exactly its oldest ones, however  *)
(* many readings the cycle drained.                                        *)
C11_EvictsBelowMemoryLimit ==
    (/\ hpc = "returned"
     /\ Len(hbatch) >= BATCH_SIZE
     /\ UploadCannotSucceed
     /\ AppendCannotSucceed)
        => /\ Len(batch) < MEMORY_LIMIT
           /\ IsSuffix(batch, hbatch)
           /\ evicted = {hbatch[i].tag : i \in 1..(Len(hbatch) - Len(batch))}

InSection(c) == fpc[c] \in {"section", "finally"}

(* C14: the flush lock excludes without waiting: at most one caller is in  *)
(* the read/upload/rewrite section, the lock is held exactly while one is  *)
(* (so it is free after every return, also after an exception, and a       *)
(* skipped attempt releases nothing), and an attempt made while the lock   *)
(* is held returns without touching data.txt or uploading.                 *)
C14_FlushLockExcludes ==
    /\ [](Cardinality({c \in Callers : InSection(c)}) <= 1)
    /\ [](flushing_file_lock <=> \E c \in Callers : InSection(c))
    /\ [][\A c \in Callers :
            /\ (fpc[c] = "idle" /\ flushing_file_lock /\ fpc'[c] # "idle")
                => /\ fpc'[c] = "skipped"
                   /\ store' = store
                   /\ uploads' = uploads
                   /\ flushing_file_lock'
            /\ (fpc[c] = "finally" /\ fpc'[c] # "finally")
                => ~flushing_file_lock']_vars

C14_Witness ==
    \E c \in Callers, d \in Callers :
        /\ fpc[c] = "skipped"
        /\ fpc[d] = "finally"
        /\ flushing_file_lock
        /\ store.exists /\ store.lines = <<>>

(* C15: data_lock is held only during the push's check-and-append and the  *)
(* drain's copy-and-clear: never during a sensor read, a connectivity      *)
(* operation, an upload, a file operation, a sleep or the cooldown after   *)
(* an exception.                                                           *)
C15_DataLockOnlyInCriticalSections ==
    /\ data_lock = "sensor" <=> spc = "push"
    /\ data_lock = "main" <=> mpc = "drain"

C15_Witness ==
    /\ data_lock = "main"
    /\ spc = "acquire"
    /\ Len(batch) >= BATCH_SIZE

(* C16: no fault ends the main loop: an error raised in a cycle leads to   *)
(* the cooldown with the batch's readings kept, the cooldown leads to the  *)
(* next cycle with the same batch, and the sensor thread can take the lock *)
(* and push during the cooldown.                                           *)
C16_LoopSurvivesError ==
    /\ [](mpc = "cooldown" => ENABLED MainCooldown)
    /\ []((mpc = "cooldown" /\ spc = "acquire") => ENABLED SensorAcquire)
    /\ [][(mpc = "handle" /\ mpc' = "cooldown")
            => (batch' = batch /\ store' = store)]_vars
    /\ [][(mpc = "cooldown" /\ mpc' # "cooldown")
            => (mpc' = "flush" /\ batch' = batch)]_vars

C16_Witness ==
    /\ mpc = "flush"
    /\ Len(batch) >= BATCH_SIZE
    /\ sensor_data # <<>>

Increasing(sq) == \A i \in 1..Len(sq) : \A j \in 1..Len(sq) : i < j => sq[i] < sq[j]

(* C18: draining is atomic with respect to pushes: a drain moves every     *)
(* queued reading to the end of batch and leaves sensor_data empty, and    *)
(* the readings pushed and not discarded are, each once and in push order, *)
(* in batch followed by sensor_data.                                       *)
C18_DrainAtomicInOrder ==
    /\ [](Increasing(TagsOf(batch \o sensor_data)))
    /\ [](\A t \in accepted \ discarded :
            t > 0 => Occurrences(TagsOf(batch \o sensor_data), t) = 1)
    /\ [][(mpc = "drain" /\ mpc' # "drain")
            => (sensor_data' = <<>> /\ batch' = batch \o sensor_data)]_vars

C18_Witness ==
    /\ mpc = "handle"
    /\ sensor_data = <<>>
    /\ Len(batch) > MEMORY_LIMIT

(* C20: while the sensor, the connectivity, the upload and the storage     *)
(* never fail, no cycle enters the catch-all handler of line 315, and the  *)
(* batch does not grow beyond what one drain can add.                      *)
C20_CatchAllIsLastResort ==
    env_ok => (mpc # "cooldown" /\ Len(batch) <= MEMORY_LIMIT)

IsReadingLine(line) == line.json /\ READING_KEYS \subseteq line.val.keys

(* The tags of the parseable records of a file, in stored order.           *)
ReadingTags(st) ==
    LET sel == SelectSeq(st.lines, IsReadingLine)
    IN [i \in 1..Len(sel) |-> sel[i].val.tag]

RECURSIVE SentTags(_)
SentTags(sent) ==
    IF sent = <<>> THEN <<>>
    ELSE TagsOf(Head(sent).payload) \o SentTags(Tail(sent))

(* C17: an unparseable line never aborts a flush: for a file that mixes    *)
(* unparseable lines with parseable records and a server answering 200,    *)
(* flush_file skips the unparseable lines and uploads the parseable        *)
(* records in stored order in batches of BATCH_SIZE.                       *)
C17_UnparseableLinesSkipped ==
    (/\ hpc = "returned"
     /\ hresult
     /\ store0.exists
     /\ \E i \in 1..Len(store0.lines) : ~store0.lines[i].json
     /\ Len(ReadingTags(store0)) >= BATCH_SIZE
     /\ Len(Answered) > Len(store0.lines) \div BATCH_SIZE
     /\ \A i \in 1..Len(Answered) : Answered[i] = 200)
        => /\ \A i \in 1..Len(hsent) : Len(hsent[i].payload) = BATCH_SIZE
           /\ SentTags(hsent) =
                SubSeq(ReadingTags(store0), 1,
                       BATCH_SIZE * (Len(ReadingTags(store0)) \div BATCH_SIZE))

(* C19: with Wi-Fi connected and every upload answered 200 from some point *)
(* on, every parseable record of data.txt is eventually uploaded and the   *)
(* file eventually becomes absent, whatever the number of stored records.  *)
C19_StoreEventuallyDelivered ==
    (stored_tags(store0) # {})
        => <>(/\ ~store.exists
              /\ \A t \in stored_tags(store0) : Acknowledged(t) = 1)

====
